---- MODULE Spec2Model ----
(***************************************************************************)
(* FMCSA Register scraper: the extraction handlers (Express route and      *)
(* serverless function), the regular-expression scan, the context-window   *)
(* category classifier, the deduplication step, and the part of the        *)
(* register view that consumes the handler's response.                     *)
(*                                                                         *)
(* Strings are run-length encoded: a string is a sequence of runs          *)
(* [c |-> character, n |-> repetitions].  Only the filler character has    *)
(* runs longer than one and two filler runs are never adjacent, so equal   *)
(* strings have equal encodings and offsets are sums of run lengths.  The  *)
(* filler character is not a letter, a digit or whitespace and occurs in   *)
(* no pattern of the program.                                              *)
(***************************************************************************)
EXTENDS Naturals, Integers, Sequences, FiniteSets, TLC

\* ------------------------------------------------------------------ bounds
MaxSegs == 3
MaxRecs == 2

\* ------------------------------------------------------- program constants
ContextWindow == 1500
MaxTitleLen == 500

\* --------------------------------------------------------------- characters
Filler == "."
Digits == {"0", "1", "2", "3", "4", "5", "6", "7", "8", "9"}
\* the characters of the model that the class \s matches (U+00A0 included)
Whitespace == {" ", "\n", "nbsp"}
LowerCase == <<"a", "b", "c", "d", "e", "f", "g", "h", "i", "j", "k", "l", "m",
               "n", "o", "p", "q", "r", "s", "t", "u", "v", "w", "x", "y", "z">>
UpperCase == <<"A", "B", "C", "D", "E", "F", "G", "H", "I", "J", "K", "L", "M",
               "N", "O", "P", "Q", "R", "S", "T", "U", "V", "W", "X", "Y", "Z">>

\* the value of a one-element set: The({f(x) : x \in {e}}) is f(e) with e
\* evaluated once
The(S) == CHOOSE x \in S : TRUE
Min(S) == CHOOSE x \in S : \A y \in S : x <= y
Max(S) == CHOOSE x \in S : \A y \in S : x >= y

\* a string literal: one run of length one per character
Str(chars) == [i \in DOMAIN chars |-> [c |-> chars[i], n |-> 1]]
Run(ch, k) == <<[c |-> ch, n |-> k]>>

\* the runs of s selected by the index set keep, in order
RECURSIVE Pick(_, _, _, _)
Pick(s, keep, lo, hi) ==
    IF lo > hi THEN <<>>
    ELSE IF lo = hi THEN (IF lo \in keep THEN <<s[lo]>> ELSE <<>>)
    ELSE LET mid == (lo + hi) \div 2
         IN Pick(s, keep, lo, mid) \o Pick(s, keep, mid + 1, hi)
Select(s, keep) == The({Pick(x, k, 1, Len(x)) : x \in {s}, k \in {keep}})

\* the runs of s that are longer than one character
Long(s) == {i \in DOMAIN s : s[i].n > 1}
\* what the runs in S add to the length beyond one character each
RECURSIVE Surplus(_, _)
Surplus(s, S) ==
    IF S = {} THEN 0
    ELSE LET i == CHOOSE j \in S : TRUE
         IN (s[i].n - 1) + Surplus(s, S \ {i})

\* String.prototype.length
Length(s) == Len(s) + Surplus(s, Long(s))

\* offset (0-based) of the first character of run i; Off(s, Len(s)+1) = length
Off(s, i) == (i - 1) + Surplus(s, {j \in Long(s) : j < i})

ToUpper ==
    [ch \in {LowerCase[k] : k \in DOMAIN LowerCase} |->
        UpperCase[CHOOSE k \in DOMAIN LowerCase : LowerCase[k] = ch]]
UpperChar(ch) == IF ch \in DOMAIN ToUpper THEN ToUpper[ch] ELSE ch

\* String.prototype.toUpperCase
toUpperCase(s) ==
    The({Select([i \in DOMAIN x |-> [c |-> UpperChar(x[i].c), n |-> x[i].n]], DOMAIN x)
         : x \in {s}})

\* does the literal `chars` occur in s starting at run i
OccursAt(s, i, chars) ==
    /\ i >= 1
    /\ i + Len(chars) - 1 <= Len(s)
    /\ \A j \in DOMAIN chars : s[i + j - 1].c = chars[j]

\* String.prototype.includes
includes(s, chars) == \E x \in {s} : \E i \in 1..Len(x) : OccursAt(x, i, chars)

\* String.prototype.substring(from, to) for 0 <= from <= to
substring(s, from, to) ==
    The({LET start(i) == (i - 1) + Surplus(s, {j \in long : j < i})
             lo(i) == IF start(i) > a THEN start(i) ELSE a
             hi(i) == IF start(i) + s[i].n < b THEN start(i) + s[i].n ELSE b
         IN Select([i \in DOMAIN s |-> [c |-> s[i].c, n |-> hi(i) - lo(i)]],
                   {i \in DOMAIN s : hi(i) > lo(i)})
         : long \in {Long(s)}, a \in {from}, b \in {to}})

IsSpace(s, i) == i \in DOMAIN s /\ s[i].c \in Whitespace
IsDigit(s, i) == i \in DOMAIN s /\ s[i].c \in Digits

\* String.prototype.replace(/\s+/g, ' '): every maximal whitespace run -> ' '
replaceSpaces(s) ==
    The({Select([i \in DOMAIN x |-> IF IsSpace(x, i) THEN [c |-> " ", n |-> 1] ELSE x[i]],
                {i \in DOMAIN x : ~(IsSpace(x, i) /\ IsSpace(x, i - 1))})
         : x \in {s}})

\* String.prototype.trim
trim(s) ==
    LET keep == {i \in DOMAIN s : ~IsSpace(s, i)}
    IN IF keep = {} THEN <<>> ELSE SubSeq(s, Min(keep), Max(keep))

\* cheerio: $.text() keeps the text nodes in document order and drops markup
\* (everything from '<' to the next '>')
text(m) ==
    LET opens == {j \in DOMAIN m : m[j].c = "<"}
        closes == {j \in DOMAIN m : m[j].c = ">"}
        inTag(i) == \E j \in opens : j < i /\ ~\E l \in closes : j < l /\ l < i
    IN Select(m, {i \in DOMAIN m : i \notin opens /\ ~inTag(i)})

\* ------------------------------------------------------------ the pattern
\* /((?:MC|FF|MX|MX-MC)-\d+)\s+([\s\S]*?)\s+(\d{2}\/\d{2}\/\d{4})/g
Prefixes == << <<"M", "C">>, <<"F", "F">>, <<"M", "X">>, <<"M", "X", "-", "M", "C">> >>

\* first run at or after i that \d does not match (greedy \d+)
RECURSIVE DigitsEnd(_, _)
DigitsEnd(s, i) == IF IsDigit(s, i) THEN DigitsEnd(s, i + 1) ELSE i
\* first run at or after i that \s does not match (greedy \s+)
RECURSIVE SpaceEnd(_, _)
SpaceEnd(s, i) == IF IsSpace(s, i) THEN SpaceEnd(s, i + 1) ELSE i

\* \d{2}\/\d{2}\/\d{4} at run d
DateAt(s, d) ==
    /\ d >= 1
    /\ d + 9 <= Len(s)
    /\ \A k \in {0, 1, 3, 4, 6, 7, 8, 9} : IsDigit(s, d + k)
    /\ s[d + 2].c = "/"
    /\ s[d + 5].c = "/"

\* positions e at which \s+(date) matches: whitespace from e up to a date
BodyEnds(s, b) ==
    {e \in b..Len(s) : IsSpace(s, e) /\ \E d \in {SpaceEnd(s, e)} : DateAt(s, d)}

NoMatch == [found |-> FALSE]

\* mutant: a greedy body, [\s\S]* instead of [\s\S]*?
BodyEndGreedy(ends) == Max(ends)
\* the lazy quantifier takes the shortest body
BodyEnd(ends) == Min(ends)

\* one alternative p of the group (?:MC|FF|MX|MX-MC) tried at run i.
\* \d+ is greedy and cannot give digits back (what follows a shorter digit
\* run is a digit, which \s does not match); the first \s+ is greedy and
\* gives whitespace back one character at a time; the body is lazy.
TryPrefix(s, i, p) ==
    The({The({The({The({
        IF OccursAt(s, i, p) /\ i + Len(p) <= Len(s) /\ s[i + Len(p)].c = "-"
           /\ IsDigit(s, i + Len(p) + 1) /\ IsSpace(s, de) /\ ws # {}
        THEN The({The({The({
                 [found |-> TRUE,
                  index |-> Off(s, i),
                  last |-> Off(s, d + 10),
                  docket |-> SubSeq(s, i, de - 1),
                  rawInfo |-> SubSeq(s, b, e - 1),
                  decidedDate |-> SubSeq(s, d, d + 9)]
                 : d \in {SpaceEnd(s, e)}})
                 : e \in {BodyEnd(BodyEnds(s, b))}})
                 : b \in {de + Max(ws)}})
        ELSE NoMatch
        : ws \in {{w \in 1..(b0 - de) : BodyEnds(s, de + w) # {}}}})
        : b0 \in {SpaceEnd(s, de)}})
        : de \in {DigitsEnd(s, q + 1)}})
        : q \in {i + Len(p)}})

\* the alternatives are tried in the order they are written
MatchAt(s, i) ==
    LET ok == {k \in DOMAIN Prefixes : TryPrefix(s, i, Prefixes[k]).found}
    IN IF ok = {} THEN NoMatch ELSE TryPrefix(s, i, Prefixes[Min(ok)])

\* mutant: the search starts at the beginning whatever lastIndex is
execIgnoresLastIndex(s, from) ==
    LET starts == {i \in DOMAIN s : MatchAt(s, i).found}
    IN IF starts = {} THEN NoMatch ELSE The({MatchAt(s, i) : i \in {Min(starts)}})
\* mutant: lastIndex is left where the search began
execWithoutAdvance(s, from) ==
    LET starts == {i \in DOMAIN s : MatchAt(s, i).found /\ Off(s, i) >= from}
    IN IF starts = {} THEN NoMatch
       ELSE The({[MatchAt(s, i) EXCEPT !.last = from] : i \in {Min(starts)}})
\* pattern.exec(rawText) with the g flag: leftmost match at or after lastIndex
exec(s, from) ==
    The({IF starts = {} THEN NoMatch ELSE The({MatchAt(s, i) : i \in {Min(starts)}})
         : starts \in {{i \in DOMAIN s : MatchAt(s, i).found /\ Off(s, i) >= from}}})

\* ------------------------------------------------------- category table
\* declared order is iteration order of Object.entries
categoryKeywords == <<
    [catName |-> "NAME CHANGE", keywords |-> {<<"N", "A", "M", "E", " ", "C", "H", "A", "N", "G", "E", "S">>}],
    [catName |-> "CERTIFICATE, PERMIT, LICENSE", keywords |-> {<<"C", "E", "R", "T", "I", "F", "I", "C", "A", "T", "E", "S", ",", " ", "P", "E", "R", "M", "I", "T", "S", " ", "&", " ", "L", "I", "C", "E", "N", "S", "E", "S">>}],
    [catName |-> "CERTIFICATE OF REGISTRATION", keywords |-> {<<"C", "E", "R", "T", "I", "F", "I", "C", "A", "T", "E", "S", " ", "O", "F", " ", "R", "E", "G", "I", "S", "T", "R", "A", "T", "I", "O", "N">>}],
    [catName |-> "DISMISSAL", keywords |-> {<<"D", "I", "S", "M", "I", "S", "S", "A", "L", "S">>}],
    [catName |-> "WITHDRAWAL", keywords |-> {<<"W", "I", "T", "H", "D", "R", "A", "W", "A", "L", " ", "O", "F", " ", "A", "P", "P", "L", "I", "C", "A", "T", "I", "O", "N">>}],
    [catName |-> "REVOCATION", keywords |-> {<<"R", "E", "V", "O", "C", "A", "T", "I", "O", "N", "S">>}],
    [catName |-> "TRANSFERS", keywords |-> {<<"T", "R", "A", "N", "S", "F", "E", "R", "S">>}],
    [catName |-> "GRANT DECISION NOTICES", keywords |-> {<<"G", "R", "A", "N", "T", " ", "D", "E", "C", "I", "S", "I", "O", "N", " ", "N", "O", "T", "I", "C", "E", "S">>}] >>

MarkerPhrase == <<"F", "M", "C", "S", "A", " ", "R", "E", "G", "I", "S", "T", "E", "R">>

\* mutant: the window is one character short
contextTextShort(s, beforeIndex) ==
    toUpperCase(substring(s,
                          IF beforeIndex - (ContextWindow - 1) > 0
                          THEN beforeIndex - (ContextWindow - 1) ELSE 0,
                          beforeIndex))
\* mutant: the window runs on into the record itself
contextTextIncludesRecord(s, beforeIndex) ==
    toUpperCase(substring(s,
                          IF beforeIndex - ContextWindow > 0
                          THEN beforeIndex - ContextWindow ELSE 0,
                          beforeIndex + ContextWindow))
\* rawText.substring(Math.max(0, beforeIndex - 1500), beforeIndex).toUpperCase()
contextText(s, beforeIndex) ==
    toUpperCase(substring(s,
                          IF beforeIndex - ContextWindow > 0
                          THEN beforeIndex - ContextWindow ELSE 0,
                          beforeIndex))

\* let category = 'MISCELLANEOUS'; for (const [catName, keywords] of ...)
\* mutant: the loop stops at the first category that matches
RECURSIVE CategoryLoopFirst(_, _, _)
CategoryLoopFirst(ctx, k, category) ==
    IF k > Len(categoryKeywords) THEN category
    ELSE IF \E kw \in categoryKeywords[k].keywords : includes(ctx, kw)
         THEN categoryKeywords[k].catName
         ELSE CategoryLoopFirst(ctx, k + 1, category)
RECURSIVE CategoryLoop(_, _, _)
CategoryLoop(ctx, k, category) ==
    IF k > Len(categoryKeywords) THEN category
    ELSE CategoryLoop(ctx, k + 1,
             IF \E kw \in categoryKeywords[k].keywords : includes(ctx, kw)
             THEN categoryKeywords[k].catName
             ELSE category)
\* mutant: another default label
CategorizeOtherDefault(ctx) == The({CategoryLoop(x, 1, "UNCATEGORIZED") : x \in {ctx}})
Categorize(ctx) == The({CategoryLoop(x, 1, "MISCELLANEOUS") : x \in {ctx}})

\* rawInfo.replace(/\s+/g, ' ').trim()
CleanTitle(rawInfo) == The({trim(x) : x \in {replaceSpaces(rawInfo)}})

\* mutant: the limit is off by one
TooLongOffByOne(title) == Length(title) > MaxTitleLen + 1
\* if (title.length > 500) continue;
TooLong(title) == Length(title) > MaxTitleLen

\* self.findIndex((e) => e.number === entry.number && e.title === entry.title)
findIndex(self, entry) ==
    Min({j \in DOMAIN self : self[j].number = entry.number /\ self[j].title = entry.title})

\* entries.filter((entry, index, self) => index === self.findIndex(...))
RECURSIVE FilterFrom(_, _)
FilterFrom(self, index) ==
    IF index > Len(self) THEN <<>>
    ELSE IF index = findIndex(self, self[index])
         THEN <<self[index]>> \o FilterFrom(self, index + 1)
         ELSE FilterFrom(self, index + 1)
\* mutant: the filter is left out
uniqueEntriesUnfiltered(list) == list
\* mutant: the last occurrence of a (number, title) pair is kept
RECURSIVE FilterLastFrom(_, _)
FilterLastFrom(self, index) ==
    IF index > Len(self) THEN <<>>
    ELSE IF \E j \in (index + 1)..Len(self) :
                self[j].number = self[index].number /\ self[j].title = self[index].title
         THEN FilterLastFrom(self, index + 1)
         ELSE <<self[index]>> \o FilterLastFrom(self, index + 1)
uniqueEntriesKeepLast(list) == FilterLastFrom(list, 1)
\* mutant: one pass removes a single repeated entry, the last one
uniqueEntriesOnePass(list) ==
    LET repeated == {i \in DOMAIN list : findIndex(list, list[i]) # i}
    IN IF repeated = {} THEN list
       ELSE SubSeq(list, 1, Max(repeated) - 1) \o SubSeq(list, Max(repeated) + 1, Len(list))
uniqueEntries(list) == FilterFrom(list, 1)

\* mutant: the marker is looked for without upper-casing the markup
InvalidResponseCaseSensitive(markup) == ~includes(markup, MarkerPhrase)
\* !response.data.toUpperCase().includes('FMCSA REGISTER')
InvalidResponse(markup) == ~includes(toUpperCase(markup), MarkerPhrase)

\* ------------------------------------------------- pages the source serves
HeaderRevocations == Str(<<"R", "E", "V", "O", "C", "A", "T", "I", "O", "N", "S", "\n">>)
HeaderTransfers == Str(<<"T", "r", "a", "n", "s", "f", "e", "r", "s", " ">>)
PadInside == Run(Filler, ContextWindow - Len(HeaderRevocations))
PadOutside == Run(Filler, ContextWindow - Len(HeaderRevocations) + 1)

\* no marker, or the marker as visible text inside an element
Heads == { <<>>,
           Str(<<"<", "b", ">", "F", "m", "c", "s", "a", " ", "R", "e", "g", "i", "s", "t", "e", "r", "<", "/", "b", ">", "\n">>) }

Segments == {
    HeaderRevocations,
    HeaderTransfers,
    PadInside,
    PadOutside,
    Str(<<"M", "C", "-", "1", " ", "A", " ", "a", " ", "0", "1", "/", "0", "1", "/", "2", "0", "2", "0", "\n">>),
    Str(<<"M", "C", "-", "1", " ", "A", " ", "\n", " ", "a", " ", "0", "2", "/", "0", "2", "/", "2", "0", "2", "0", "\n">>),
    Str(<<"F", "F", "-", "3", " ">>) \o Run(Filler, MaxTitleLen - 2) \o Str(<<" ", " ", "c", " ", "0", "1", "/", "0", "1", "/", "2", "0", "2", "0", "\n">>),
    Str(<<"M", "C", "-", "5", " ">>) }

RECURSIVE Concat(_)
Concat(ss) == IF ss = <<>> THEN <<>> ELSE ss[1] \o Concat(Tail(ss))

\* adjacent filler runs are one run
Canon(s) ==
    LET fill == {i \in DOMAIN s : s[i].c = Filler}
        group(i) == {j \in fill : j >= i /\ \A l \in i..j : l \in fill}
        merged == [i \in DOMAIN s |->
                     IF i \in fill
                     THEN [c |-> Filler, n |-> Cardinality(group(i)) + Surplus(s, group(i))]
                     ELSE s[i]]
    IN Select(merged, {i \in DOMAIN s : ~(i \in fill /\ (i - 1) \in fill)})

SegLists == UNION {[1..k -> Segments] : k \in 0..MaxSegs}
Pages == {Canon(h \o Concat(ss)) : h \in Heads, ss \in SegLists}

\* pages made of records 'docket body date' separated by whitespace
Records == {
    [docket |-> Str(<<"M", "C", "-", "1">>), gap1 |-> Str(<<" ">>), body |-> Str(<<"A", "A", "A">>), gap2 |-> Str(<<" ">>), date |-> Str(<<"0", "1", "/", "0", "1", "/", "2", "0", "2", "0">>), sep |-> Str(<<" ">>)],
    [docket |-> Str(<<"M", "C", "-", "2">>), gap1 |-> Str(<<" ">>), body |-> Str(<<"B", "B", "B">>), gap2 |-> Str(<<" ">>), date |-> Str(<<"0", "2", "/", "0", "2", "/", "2", "0", "2", "0">>), sep |-> Str(<<" ">>)],
    [docket |-> Str(<<"M", "X", "-", "M", "C", "-", "2", "2">>), gap1 |-> Str(<<"\n", " ">>), body |-> Str(<<"B", " ", " ", "b">>), gap2 |-> Str(<<" ", "nbsp">>), date |-> Str(<<"0", "3", "/", "0", "3", "/", "2", "0", "2", "0">>), sep |-> Str(<<"\n", "\n">>)],
    [docket |-> Str(<<"F", "F", "-", "3">>), gap1 |-> Str(<<" ">>), body |-> Run(Filler, MaxTitleLen + 1), gap2 |-> Str(<<" ">>), date |-> Str(<<"0", "1", "/", "0", "1", "/", "2", "0", "2", "0">>), sep |-> Str(<<"\n">>)],
    [docket |-> Str(<<"M", "X", "-", "4">>), gap1 |-> Str(<<"nbsp">>), body |-> Str(<<"a", "\n", "b">>), gap2 |-> Str(<<"\n">>), date |-> Str(<<"1", "2", "/", "3", "1", "/", "1", "9", "9", "9">>), sep |-> Str(<<"nbsp">>)],
    [docket |-> Str(<<"M", "C", "-", "1">>), gap1 |-> Str(<<" ">>), body |-> Str(<<"A", "A", "A">>), gap2 |-> Str(<<" ", " ">>), date |-> Str(<<"0", "2", "/", "0", "2", "/", "2", "0", "2", "0">>), sep |-> Str(<<" ">>)] }

RecordLists == UNION {[1..k -> Records] : k \in 1..MaxRecs}

RecordText(r) == r.docket \o r.gap1 \o r.body \o r.gap2 \o r.date
RECURSIVE Build(_)
Build(rs) ==
    IF Len(rs) = 1 THEN RecordText(rs[1])
    ELSE RecordText(rs[1]) \o rs[1].sep \o Build(Tail(rs))

MarkerComment == Str(<<"<", "!", "-", "-", "F", "m", "c", "s", "a", " ", "R", "e", "g", "i", "s", "t", "e", "r", "-", "-", ">">>)
RecordPages == {MarkerComment \o Build(rs) : rs \in RecordLists}

\* the category list of the register view
categories == {"NAME CHANGE", "CERTIFICATE, PERMIT, LICENSE",
               "CERTIFICATE OF REGISTRATION", "DISMISSAL", "WITHDRAWAL",
               "REVOCATION", "MISCELLANEOUS", "TRANSFERS",
               "GRANT DECISION NOTICES"}

\* ------------------------------------------------------------------ state
VARIABLES
    handler,       \* which deployment serves the request: "express" | "serverless"
    method,        \* HTTP method of the request
    pc,            \* position of the handler / the view
    data,          \* response.data of the axios call
    rawText,       \* $.text()
    lastIndex,     \* pattern.lastIndex
    entries,       \* entries pushed so far
    matches,       \* history: every match object the loop has seen
    res,           \* the HTTP response sent by the handler
    error,         \* the view's error state
    registerData,  \* the view's entry list
    table,         \* the rows of the store's fmcsa_register table
    call,          \* history: the last call of a persistence service function
    saveStatus,    \* the view's saveStatus state
    dateRun,       \* history: the last date conversion
    cleaned,       \* history: the last normalisation
    jobs,          \* the requests in flight at one server process
    pending,       \* the view's save that awaits the store
    view,          \* the view's date field, loading flag and requests in flight
    pair           \* history: one fetch outcome answered by both handlers

\* everything outside the request handler and the response handling
serviceVars == <<table, call, saveStatus, dateRun, cleaned, jobs, pending, view, pair>>

vars == <<handler, method, pc, data, rawText, lastIndex, entries,
          matches, res, error, registerData, serviceVars>>

NoResponse == [sent |-> FALSE]
\* no call has been made yet
NoCall == [kind |-> "none"]
\* the register view has not been mounted
NotMounted == [mounted |-> FALSE]

\* requests one server process handles at the same time
MaxJobs == 2
\* records on a page of such a request
MaxJobRecs == 1
Jobs == 1..MaxJobs
\* no request has arrived; no array is left from an earlier request
NoJobs == [procs |-> [r \in Jobs |-> [stage |-> "none"]], left |-> <<>>]
FetchErrors == {"timeout of 60000ms exceeded", "Request failed with status code 404"}

Init ==
    /\ handler = "none"
    /\ method = "none"
    /\ pc = "idle"
    /\ data = <<>>
    /\ rawText = <<>>
    /\ lastIndex = 0
    /\ entries = <<>>
    /\ matches = <<>>
    /\ res = NoResponse
    /\ error = ""
    /\ registerData = <<>>
    /\ table = {}
    /\ call = NoCall
    /\ saveStatus = "idle"
    /\ dateRun = NoCall
    /\ cleaned = NoCall
    /\ jobs = NoJobs
    /\ pending = [active |-> FALSE]
    /\ view = NotMounted
    /\ pair = NoCall

\* the pages the register site may serve for the requested date
Served == Pages \cup RecordPages

\* a request reaches the Express route (POST only) or the serverless function
Request(h, m) ==
    /\ pc = "idle"
    /\ h = "express" => m = "POST"
    /\ handler' = h
    /\ method' = m
    /\ IF m = "OPTIONS"
       THEN /\ res' = [sent |-> TRUE, status |-> 200, body |-> [empty |-> TRUE]]
            /\ pc' = "responded"
       ELSE IF m # "POST"
       THEN /\ res' = [sent |-> TRUE, status |-> 405,
                       body |-> [error |-> "Method not allowed"]]
            /\ pc' = "responded"
       ELSE /\ res' = res
            /\ pc' = "fetching"
    /\ UNCHANGED <<data, rawText, lastIndex, entries, matches, error, registerData>>
    /\ UNCHANGED serviceVars

\* await axios.post(...) resolves with the page
FetchResolve ==
    /\ pc = "fetching"
    /\ \E page \in Served : data' = page
    /\ pc' = "fetched"
    /\ UNCHANGED <<handler, method, rawText, lastIndex, entries, matches,
                   res, error, registerData>>
    /\ UNCHANGED serviceVars

\* mutant: the catch block answers without the message of the error
FetchRejectHidesMessage(msg) ==
    /\ pc = "fetching"
    /\ res' = [sent |-> TRUE, status |-> 500,
               body |-> [success |-> FALSE,
                         error |-> "Failed to scrape FMCSA register data",
                         details |-> "",
                         entries |-> <<>>]]
    /\ pc' = "responded"
    /\ UNCHANGED <<handler, method, data, rawText, lastIndex, entries,
                   matches, error, registerData>>
    /\ UNCHANGED serviceVars

\* await axios.post(...) throws: the catch block answers 500
FetchReject(msg) ==
    /\ pc = "fetching"
    /\ res' = [sent |-> TRUE, status |-> 500,
               body |-> [success |-> FALSE,
                         error |-> "Failed to scrape FMCSA register data",
                         details |-> msg,
                         entries |-> <<>>]]
    /\ pc' = "responded"
    /\ UNCHANGED <<handler, method, data, rawText, lastIndex, entries,
                   matches, error, registerData>>
    /\ UNCHANGED serviceVars

InvalidMessage(h) ==
    IF h = "express"
    THEN "Invalid response from FMCSA. The page might not be available for this date."
    ELSE "Invalid response from FMCSA"

\* the marker check, then cheerio.load(response.data) and $.text()
ValidateResponse ==
    /\ pc = "fetched"
    /\ IF InvalidResponse(data)
       THEN /\ res' = [sent |-> TRUE, status |-> 400,
                       body |-> [success |-> FALSE,
                                 error |-> InvalidMessage(handler),
                                 entries |-> <<>>]]
            /\ pc' = "responded"
            /\ UNCHANGED <<rawText, lastIndex>>
       ELSE /\ rawText' = text(data)
            /\ lastIndex' = 0
            /\ pc' = "scan"
            /\ res' = res
    /\ UNCHANGED <<handler, method, data, entries, matches, error, registerData>>
    /\ UNCHANGED serviceVars

\* mutant: a new entry is put in front of the list
ScanMatchPrepends ==
    /\ pc = "scan"
    /\ \E match \in {exec(rawText, lastIndex)} :
          /\ match.found
          /\ \E title \in {CleanTitle(match.rawInfo)} :
                /\ matches' = Append(matches, [index |-> match.index,
                                               last |-> match.last,
                                               docket |-> match.docket,
                                               rawInfo |-> match.rawInfo,
                                               decidedDate |-> match.decidedDate,
                                               pushed |-> ~TooLong(title)])
                /\ entries' =
                      IF TooLong(title) THEN entries
                      ELSE <<[number |-> match.docket,
                              title |-> title,
                              decided |-> match.decidedDate,
                              category |-> Categorize(contextText(rawText, match.index))]>>
                           \o entries
          /\ lastIndex' = match.last
    /\ UNCHANGED <<handler, method, pc, data, rawText, res, error, registerData>>
    /\ UNCHANGED serviceVars

\* mutant: after a skipped match the search goes on inside its span
ScanMatchResumesInside ==
    /\ pc = "scan"
    /\ \E match \in {exec(rawText, lastIndex)} :
          /\ match.found
          /\ \E title \in {CleanTitle(match.rawInfo)} :
                /\ matches' = Append(matches, [index |-> match.index,
                                               last |-> match.last,
                                               docket |-> match.docket,
                                               rawInfo |-> match.rawInfo,
                                               decidedDate |-> match.decidedDate,
                                               pushed |-> ~TooLong(title)])
                /\ entries' =
                      IF TooLong(title) THEN entries
                      ELSE Append(entries,
                                  [number |-> match.docket,
                                   title |-> title,
                                   decided |-> match.decidedDate,
                                   category |-> Categorize(contextText(rawText, match.index))])
                /\ lastIndex' = IF TooLong(title) THEN match.index + 1 ELSE match.last
    /\ UNCHANGED <<handler, method, pc, data, rawText, res, error, registerData>>
    /\ UNCHANGED serviceVars

\* one iteration of while ((match = pattern.exec(rawText)) !== null)
ScanMatch ==
    /\ pc = "scan"
    /\ \E match \in {exec(rawText, lastIndex)} :
          /\ match.found
          /\ \E title \in {CleanTitle(match.rawInfo)} :
                /\ matches' = Append(matches, [index |-> match.index,
                                               last |-> match.last,
                                               docket |-> match.docket,
                                               rawInfo |-> match.rawInfo,
                                               decidedDate |-> match.decidedDate,
                                               pushed |-> ~TooLong(title)])
                /\ entries' =
                      IF TooLong(title) THEN entries
                      ELSE Append(entries,
                                  [number |-> match.docket,
                                   title |-> title,
                                   decided |-> match.decidedDate,
                                   category |-> Categorize(contextText(rawText, match.index))])
          /\ lastIndex' = match.last
    /\ UNCHANGED <<handler, method, pc, data, rawText, res, error, registerData>>
    /\ UNCHANGED serviceVars

\* exec returns null: the loop ends, the entries are deduplicated and sent
RespondEntries ==
    /\ pc = "scan"
    /\ ~exec(rawText, lastIndex).found
    /\ lastIndex' = 0
    /\ \E unique \in {uniqueEntries(entries)} :
          res' = [sent |-> TRUE, status |-> 200,
                  body |-> [success |-> TRUE,
                            count |-> Len(unique),
                            entries |-> unique]]
    /\ pc' = "responded"
    /\ UNCHANGED <<handler, method, data, rawText, entries, matches,
                   error, registerData>>
    /\ UNCHANGED serviceVars

\* fetchRegisterData: the view handles the response of its POST
ReceiveResponse ==
    /\ pc = "responded"
    /\ method = "POST"
    /\ IF ~(res.status >= 200 /\ res.status <= 299)
       THEN /\ error' = res.body.error
            /\ registerData' = registerData
       ELSE IF res.body.success /\ Len(res.body.entries) > 0
       THEN /\ registerData' = res.body.entries
            /\ error' = ""
       ELSE /\ error' = "No entries found on FMCSA for this date."
            /\ registerData' = registerData
    /\ pc' = "shown"
    /\ UNCHANGED <<handler, method, data, rawText, lastIndex, entries,
                   matches, res>>
    /\ UNCHANGED serviceVars

Next ==
    \/ \E h \in {"express", "serverless"}, m \in {"POST", "OPTIONS", "GET"} : Request(h, m)
    \/ FetchResolve
    \/ \E msg \in FetchErrors : FetchReject(msg)
    \/ ValidateResponse
    \/ ScanMatch
    \/ RespondEntries
    \/ ReceiveResponse

Spec == Init /\ [][Next]_vars

\* ------------------------------------------------------------- properties
\* the handler answered the POST with the extracted entries
Success == res.sent /\ method = "POST" /\ res.status = 200

SameKey(a, b) == a.number = b.number /\ a.title = b.title

\* C1: the entry list returned by one extraction run contains no two entries
\* at different positions with the same number and the same title.
C1_NoDuplicateEntries ==
    Success =>
        \A i, j \in DOMAIN res.body.entries :
            i # j => ~SameKey(res.body.entries[i], res.body.entries[j])

\* a run whose match list held a duplicate that the response no longer has
C1_Witness ==
    /\ Success
    /\ \E i, j \in DOMAIN entries : i # j /\ SameKey(entries[i], entries[j])
    /\ Len(res.body.entries) < Len(entries)

\* C2: deduplication keeps, for each (number, title) pair of the match list,
\* exactly its first occurrence (with that occurrence's decided date and
\* category) and drops the later ones; the order is otherwise unchanged.
C2_FirstOccurrenceKept ==
    Success =>
        LET out == res.body.entries
            kept == {i \in DOMAIN entries :
                        \A j \in 1..(i - 1) : ~SameKey(entries[j], entries[i])}
            rank(i) == Cardinality({j \in kept : j <= i})
        IN /\ Len(out) = Cardinality(kept)
           /\ \A i \in kept : out[rank(i)] = entries[i]

\* a duplicate pair whose two occurrences differ in decided date or category
C2_Witness ==
    /\ Success
    /\ \E i, j \in DOMAIN entries :
          /\ i < j
          /\ SameKey(entries[i], entries[j])
          /\ entries[i] # entries[j]
          /\ \E k \in DOMAIN res.body.entries : res.body.entries[k] = entries[i]

\* the match object from which the k-th pushed entry was built
MatchOfEntry(k) ==
    LET pushed == {i \in DOMAIN matches : matches[i].pushed}
    IN matches[CHOOSE i \in pushed : Cardinality({j \in pushed : j <= i}) = k]

\* positions in the declared order of the categories with a keyword in ctx
Candidates(ctx) ==
    {c \in DOMAIN categoryKeywords :
        \E kw \in categoryKeywords[c].keywords : includes(ctx, kw)}

\* C3: the category of each emitted entry is the last category, in declared
\* order, with a keyword occurring in the upper-cased context window, and it
\* is MISCELLANEOUS exactly when no keyword of any category occurs there.
C3_LastDeclaredCategoryWins ==
    \A k \in DOMAIN entries :
        LET cand == Candidates(contextText(rawText, MatchOfEntry(k).index))
        IN /\ (entries[k].category = "MISCELLANEOUS") <=> (cand = {})
           /\ cand # {} => entries[k].category = categoryKeywords[Max(cand)].catName

\* two headers precede a record; the later declared one is not the nearest
C3_Witness ==
    \E k \in DOMAIN entries :
        LET ctx == contextText(rawText, MatchOfEntry(k).index)
        IN /\ Cardinality(Candidates(ctx)) = 2
           /\ entries[k].category = "TRANSFERS"
           /\ \E i, j \in DOMAIN ctx :
                 /\ i < j
                 /\ OccursAt(ctx, i, CHOOSE kw \in categoryKeywords[7].keywords : TRUE)
                 /\ OccursAt(ctx, j, CHOOSE kw \in categoryKeywords[6].keywords : TRUE)

\* the lower-case form of each upper-case letter
LowerOf ==
    [ch \in {UpperCase[k] : k \in DOMAIN UpperCase} |->
        LowerCase[CHOOSE k \in DOMAIN UpperCase : UpperCase[k] = ch]]
\* a is the character b of a keyword, in either letter case
SameLetter(a, b) == a = b \/ (b \in DOMAIN LowerOf /\ LowerOf[b] = a)

\* keyword kw, in any letter case, lies entirely in [max(0, P - 1500), P)
KeywordInside(s, P, kw) ==
    \E i \in DOMAIN s :
        /\ i + Len(kw) - 1 <= Len(s)
        /\ \A j \in DOMAIN kw : SameLetter(s[i + j - 1].c, kw[j])
        /\ Off(s, i) >= P - ContextWindow
        /\ Off(s, i + Len(kw)) <= P

\* C4: the window of a match starting at P is exactly the text from
\* max(0, P - 1500) up to but not including P: a keyword decides the category
\* if and only if it lies entirely inside that span, in any letter case.
C4_WindowIsExact ==
    \A k \in DOMAIN entries :
        LET P == MatchOfEntry(k).index
            inside == {c \in DOMAIN categoryKeywords :
                          \E kw \in categoryKeywords[c].keywords :
                              KeywordInside(rawText, P, kw)}
        IN entries[k].category =
              IF inside = {} THEN "MISCELLANEOUS"
              ELSE categoryKeywords[Max(inside)].catName

\* a keyword whose first character is the first character of the window
C4_Witness ==
    \E k \in DOMAIN entries :
        LET P == MatchOfEntry(k).index
        IN /\ P > ContextWindow
           /\ entries[k].category = "REVOCATION"
           /\ \E i \in DOMAIN rawText :
                 /\ Off(rawText, i) = P - ContextWindow
                 /\ \E kw \in categoryKeywords[6].keywords : KeywordInside(rawText, P, kw)
                 /\ rawText[i].c = "R"

\* C5: no entry in the output of an extraction run has a title longer than
\* 500 characters.
C5_TitleLengthBound ==
    /\ \A k \in DOMAIN entries : Length(entries[k].title) <= 500
    /\ Success => \A k \in DOMAIN res.body.entries :
                      Length(res.body.entries[k].title) <= 500

\* a response that holds a title of exactly 500 characters
C5_Witness ==
    /\ Success
    /\ \E k \in DOMAIN res.body.entries : Length(res.body.entries[k].title) = 500

\* C6: any match whose captured body is longer than 500 characters is
\* dropped entirely: no entry is emitted for it.
C6_OversizedBodyDropped ==
    \A i \in DOMAIN matches :
        Length(matches[i].rawInfo) > 500 => ~matches[i].pushed

\* C7: the category of every emitted entry is one of the nine fixed labels.
C7_CategoryClosure ==
    /\ Cardinality(categories) = 9
    /\ \A k \in DOMAIN entries : entries[k].category \in categories
    /\ Success => \A k \in DOMAIN res.body.entries :
                      res.body.entries[k].category \in categories

\* a response with a MISCELLANEOUS entry and an entry of a keyword category
C7_Witness ==
    /\ Success
    /\ \E i, j \in DOMAIN res.body.entries :
          /\ res.body.entries[i].category = "MISCELLANEOUS"
          /\ res.body.entries[j].category \in categories \ {"MISCELLANEOUS"}

\* the runs of s that are not whitespace, in order
Words(s) == Select(s, {i \in DOMAIN s : ~IsSpace(s, i)})
\* for every whitespace run of s, the number of other characters before it
Gaps(s) ==
    {Cardinality({j \in 1..i : ~IsSpace(s, j)}) :
        i \in {l \in DOMAIN s : IsSpace(s, l) /\ ~IsSpace(s, l - 1)}}
\* title is body with every whitespace run collapsed to one space, trimmed
CollapsedTo(body, title) ==
    /\ Words(title) = Words(body)
    /\ Gaps(title) = Gaps(body) \ {0, Len(Words(body))}
    /\ \A i \in DOMAIN title :
          IsSpace(title, i) =>
              /\ title[i] = [c |-> " ", n |-> 1]
              /\ i \notin {1, Len(title)}
              /\ ~IsSpace(title, i + 1)

\* offset of record i in the text built from the records rs
RecordStart(rs, i) == IF i = 1 THEN 0
                      ELSE Length(Build(SubSeq(rs, 1, i - 1)) \o rs[i - 1].sep)

\* C8: for a text made of k >= 1 records 'docket body date' separated by
\* whitespace, with no date-shaped or docket token inside a body, extraction
\* finds exactly k matches in order; each one has the docket and the date
\* of its record as they appear and, as title, the record's own body with
\* whitespace runs collapsed to single spaces and trimmed.
C8_RecordsMatchedOneToOne ==
    \A rs \in RecordLists :
        rawText = Build(rs) =>
            /\ Len(matches) <= Len(rs)
            /\ Success => Len(matches) = Len(rs)
            /\ \A i \in DOMAIN matches :
                  /\ matches[i].index = RecordStart(rs, i)
                  /\ matches[i].docket = rs[i].docket
                  /\ matches[i].decidedDate = rs[i].date
                  /\ matches[i].rawInfo = rs[i].body
                  /\ matches[i].pushed <=> Length(rs[i].body) <= 500
            /\ Len(entries) = Cardinality({i \in DOMAIN matches : matches[i].pushed})
            /\ \A k \in DOMAIN entries :
                  \E i \in DOMAIN matches :
                      /\ matches[i] = MatchOfEntry(k)
                      /\ entries[k].number = rs[i].docket
                      /\ entries[k].decided = rs[i].date
                      /\ CollapsedTo(rs[i].body, entries[k].title)

\* 'MC-1 AAA 01/01/2020 MC-2 BBB 02/02/2020' answered with the two entries
\* AAA and BBB
C8_Witness ==
    /\ Success
    /\ \E rs \in RecordLists : Len(rs) = 2 /\ rawText = Build(rs)
    /\ Length(rawText) = 39
    /\ Len(res.body.entries) = 2
    /\ res.body.entries[1].number = Str(<<"M", "C", "-", "1">>)
    /\ res.body.entries[1].title = Str(<<"A", "A", "A">>)
    /\ res.body.entries[1].decided = Str(<<"0", "1", "/", "0", "1", "/", "2", "0", "2", "0">>)
    /\ res.body.entries[2].number = Str(<<"M", "C", "-", "2">>)
    /\ res.body.entries[2].title = Str(<<"B", "B", "B">>)
    /\ res.body.entries[2].decided = Str(<<"0", "2", "/", "0", "2", "/", "2", "0", "2", "0">>)

\* the marker phrase occurs in the markup in some letter case
HasMarker(markup) ==
    \E i \in DOMAIN markup :
        /\ i + Len(MarkerPhrase) - 1 <= Len(markup)
        /\ \A j \in DOMAIN MarkerPhrase : SameLetter(markup[i + j - 1].c, MarkerPhrase[j])

\* the page has been retrieved and the marker check has been made
Gated == method = "POST" /\ pc \in {"scan", "responded", "shown"}
            /\ ~(res.sent /\ res.status = 500)

\* C9: when the retrieved markup does not contain 'FMCSA REGISTER' in any
\* letter case the operation ends with a failure result carrying an error
\* message and an empty entry list, and no extraction is performed on the
\* markup; when the phrase is present in any letter case the gate passes.
C9_MarkerGate ==
    Gated =>
        IF HasMarker(data)
        THEN pc = "scan" \/ (res.sent /\ res.status = 200)
        ELSE /\ res.sent /\ res.status = 400
             /\ res.body.success = FALSE
             /\ res.body.error # ""
             /\ res.body.entries = <<>>
             /\ rawText = <<>> /\ matches = <<>> /\ entries = <<>>

\* a page without the marker that holds a record, refused
C9_Witness ==
    /\ Gated /\ ~HasMarker(data)
    /\ exec(text(data), 0).found
    /\ res.sent /\ res.status = 400

\* a page whose marker is in mixed case, with a record, extracted
C9_GatePassesMixedCase ==
    /\ Gated /\ HasMarker(data) /\ ~includes(data, MarkerPhrase)
    /\ Success /\ Len(res.body.entries) > 0

\* C10: a valid document in which no record matches, or in which every match
\* is oversized, yields a successful result with an empty entry list; no
\* error is raised for it and none is reported to the user.
C10_EmptyResultIsNotAnError ==
    (method = "POST" /\ pc = "shown" /\ HasMarker(data) /\ res.status # 500
        /\ \A i \in DOMAIN matches : ~matches[i].pushed)
    => /\ res.status = 200 /\ res.body.success /\ res.body.entries = <<>>
       /\ error = ""

\* ------------------------------------------------------------- persistence
\* longest entry list handed to the save function
MaxSaved == 2
\* query.limit(500)
DefaultLimit == 500

\* fetch dates: ISO date strings, which compare as the days they denote
FetchDates == {1, 2}
\* an absent (undefined) date, search term or limit of a filter object
NoDate == 0
NoTerm == <<>>
NoLimit == -1

\* entries as the handler returns them; the first two share their number
\* and differ in their title, so the deduplication step keeps both
StoreEntries == {
    [number |-> Str(<<"M", "C", "-", "1">>), title |-> Str(<<"A", "b">>),
     decided |-> Str(<<"0", "1", "/", "0", "1", "/", "2", "0", "2", "0">>), category |-> "REVOCATION"],
    [number |-> Str(<<"M", "C", "-", "1">>), title |-> Str(<<"c", "d">>),
     decided |-> Str(<<"0", "1", "/", "0", "1", "/", "2", "0", "2", "0">>), category |-> "MISCELLANEOUS"],
    [number |-> Str(<<"F", "F", "-", "2">>), title |-> Str(<<"A", "b">>),
     decided |-> Str(<<"0", "2", "/", "0", "2", "/", "2", "0", "2", "0">>), category |-> "MISCELLANEOUS"] }

\* lists without a repeated entry, as uniqueEntries leaves them
EntryLists ==
    {l \in UNION {[1..k -> StoreEntries] : k \in 0..MaxSaved} :
        \A i, j \in DOMAIN l : i # j => l[i] # l[j]}

\* the ways a call of the store can fail: the client resolves with an error
\* object, or the call throws
NoFault == [how |-> "none", message |-> ""]
StoreFaults == {NoFault,
                [how |-> "returned", message |-> "permission denied for table fmcsa_register"],
                [how |-> "thrown", message |-> "Failed to fetch"]}

\* the columns named by onConflict: 'number,date_fetched'
ConflictKey(row) == <<row.number, row.date_fetched>>

\* PostgreSQL INSERT ... ON CONFLICT (number, date_fetched) DO UPDATE: a
\* statement that proposes one key twice fails as a whole; otherwise every
\* record is written, replacing the row that has its key
upsert(tbl, records) ==
    IF \E i, j \in DOMAIN records :
          i # j /\ ConflictKey(records[i]) = ConflictKey(records[j])
    THEN [error |-> "ON CONFLICT DO UPDATE command cannot affect row a second time",
          table |-> tbl]
    ELSE [error |-> "",
          table |-> {r \in tbl : \A i \in DOMAIN records :
                                    ConflictKey(r) # ConflictKey(records[i])}
                    \cup {records[i] : i \in DOMAIN records}]

\* entries.map(entry => ({ ...columns, date_fetched: fetchDate }))
records(list, fetchDate) ==
    [i \in DOMAIN list |->
        [number |-> list[i].number, title |-> list[i].title,
         decided |-> list[i].decided, category |-> list[i].category,
         date_fetched |-> fetchDate]]

\* the entries argument: an array, or null / undefined (present = FALSE)
Given(list) == [present |-> TRUE, list |-> list]
Missing == [present |-> FALSE, list |-> <<>>]

\* what the awaited upsert resolves to, or the exception it throws
UpsertReply(tbl, recs, fault) ==
    IF fault.how = "none" THEN upsert(tbl, recs)
    ELSE [error |-> fault.message, table |-> tbl]

\* mutant: the count is taken from the rows the table holds for the date
saveFMCSARegisterEntriesCountsDate(arg, fetchDate, fault, tbl) ==
    LET recs == records(arg.list, fetchDate)
        reply == UpsertReply(tbl, recs, fault)
    IN IF ~arg.present \/ Len(arg.list) = 0
       THEN [result |-> [success |-> TRUE, count |-> 0],
             table |-> tbl, contacted |-> FALSE, written |-> <<>>]
       ELSE [result |-> IF reply.error # ""
                        THEN [success |-> FALSE, error |-> reply.error]
                        ELSE [success |-> TRUE,
                              count |-> Cardinality({r \in reply.table :
                                                        r.date_fetched = fetchDate})],
             table |-> reply.table, contacted |-> TRUE,
             written |-> IF reply.error # "" THEN <<>> ELSE recs]
\* saveFMCSARegisterEntries: the result object, the table afterwards,
\* whether the store was called and the records it wrote
saveFMCSARegisterEntries(arg, fetchDate, fault, tbl) ==
    LET recs == records(arg.list, fetchDate)
        reply == UpsertReply(tbl, recs, fault)
    IN IF ~arg.present \/ Len(arg.list) = 0
       THEN [result |-> [success |-> TRUE, count |-> 0],
             table |-> tbl, contacted |-> FALSE, written |-> <<>>]
       ELSE [result |-> IF reply.error # ""
                        THEN [success |-> FALSE, error |-> reply.error]
                        ELSE [success |-> TRUE, count |-> Len(recs)],
             table |-> reply.table, contacted |-> TRUE,
             written |-> IF reply.error # "" THEN <<>> ELSE recs]

\* --- the query
\* character codes of the characters of the docket numbers
Code == [ch \in {"-", "1", "2", "C", "F", "M"} |->
            CASE ch = "-" -> 45 [] ch = "1" -> 49 [] ch = "2" -> 50
              [] ch = "C" -> 67 [] ch = "F" -> 70 [] ch = "M" -> 77]
\* a sorts before b (text order of the number column)
RECURSIVE TextLess(_, _, _)
TextLess(a, b, i) ==
    IF i > Len(b) THEN FALSE
    ELSE IF i > Len(a) THEN TRUE
    ELSE IF a[i].c # b[i].c THEN Code[a[i].c] < Code[b[i].c]
    ELSE TextLess(a, b, i + 1)

\* SQL ILIKE: % matches any sequence, _ any one character, letters in
\* either case
RECURSIVE ilike(_, _, _, _)
ilike(str, i, pat, j) ==
    IF j > Len(pat) THEN i > Len(str)
    ELSE IF pat[j] = "%"
    THEN ilike(str, i, pat, j + 1) \/ (i <= Len(str) /\ ilike(str, i + 1, pat, j))
    ELSE /\ i <= Len(str)
         /\ (pat[j] = "_" \/ UpperChar(str[i].c) = UpperChar(pat[j]))
         /\ ilike(str, i + 1, pat, j + 1)

\* `%${filters.searchTerm}%`
searchPattern(term) == <<"%">> \o term \o <<"%">>

\* the rows the filters of the query select
Selected(row, filters) ==
    /\ (filters.category # "" /\ filters.category # "all")
          => row.category = filters.category
    /\ filters.dateFrom # NoDate => row.date_fetched >= filters.dateFrom
    /\ filters.dateTo # NoDate => row.date_fetched <= filters.dateTo
    /\ filters.searchTerm # NoTerm
          => \/ ilike(row.number, 1, searchPattern(filters.searchTerm), 1)
             \/ ilike(row.title, 1, searchPattern(filters.searchTerm), 1)

\* .order('date_fetched', { ascending: false }).order('number', { ascending: true })
RowBefore(a, b) ==
    \/ a.date_fetched > b.date_fetched
    \/ a.date_fetched = b.date_fetched /\ TextLess(a.number, b.number, 1)
RECURSIVE Ordered(_)
Ordered(rows) ==
    IF rows = {} THEN <<>>
    ELSE LET first == CHOOSE r \in rows : \A o \in rows \ {r} : RowBefore(r, o)
         IN <<first>> \o Ordered(rows \ {first})

\* filters?.limit ? query.limit(filters.limit) : query.limit(500)
LimitOf(filters) ==
    IF filters.limit # NoLimit /\ filters.limit # 0 THEN filters.limit ELSE DefaultLimit
Limited(seq, n) == SubSeq(seq, 1, IF Len(seq) < n THEN Len(seq) ELSE n)

\* fetchFMCSARegisterEntries: the array it resolves to
fetchFMCSARegisterEntries(filters, fault, tbl) ==
    IF fault.how # "none" THEN <<>>
    ELSE Limited(Ordered({r \in tbl : Selected(r, filters)}), LimitOf(filters))

\* --- calls of the service functions by any caller
SearchTerms == {NoTerm, <<"c">>, <<"_">>}
Filters == [category : {"", "all", "MISCELLANEOUS"},
            dateFrom : {NoDate, 2},
            dateTo : {NoDate, 1},
            searchTerm : SearchTerms,
            limit : {NoLimit, 0, 1}]

handlerVars == <<handler, method, pc, data, rawText, lastIndex, entries, matches, res>>

\* a caller awaits saveFMCSARegisterEntries(entries, fetchDate)
SaveEntries(arg, fetchDate, fault) ==
    /\ \E out \in {saveFMCSARegisterEntries(arg, fetchDate, fault, table)} :
          /\ table' = out.table
          /\ call' = [kind |-> "save", arg |-> arg, fetchDate |-> fetchDate,
                      fault |-> fault, result |-> out.result,
                      contacted |-> out.contacted, written |-> out.written,
                      before |-> table]
    /\ UNCHANGED <<handlerVars, error, registerData, saveStatus, dateRun, cleaned, jobs, pending, view, pair>>

\* a caller awaits fetchFMCSARegisterEntries(filters)
QueryEntries(filters, fault) ==
    /\ call' = [kind |-> "query", filters |-> filters, fault |-> fault,
                result |-> fetchFMCSARegisterEntries(filters, fault, table)]
    /\ UNCHANGED <<handlerVars, error, registerData, table, saveStatus, dateRun, cleaned, jobs, pending, view, pair>>

StoreNext ==
    \/ \E arg \in {Missing} \cup {Given(l) : l \in EntryLists},
          fetchDate \in FetchDates, fault \in StoreFaults :
          SaveEntries(arg, fetchDate, fault)
    \/ \E filters \in Filters, fault \in StoreFaults : QueryEntries(filters, fault)

StoreSpec == Init /\ [][StoreNext]_vars

\* ------------------------------------------------ properties of the store
\* the last call reached the store and the store failed
StoreFailed ==
    /\ call.kind \in {"save", "query"}
    /\ call.fault.how # "none"
    /\ call.kind = "save" => call.contacted

\* C11: every error returned by the store, for an upsert and for a query
\* alike, is reported to the caller as a failure with a message; it is never
\* turned into a result the caller cannot tell apart from a successful or
\* empty one.
C11_StoreErrorsReported ==
    StoreFailed =>
        IF call.kind = "save"
        THEN ~call.result.success /\ call.result.error = call.fault.message
        ELSE call.result # fetchFMCSARegisterEntries(call.filters, NoFault, {})

\* the rows the table holds for a fetch date
RowsOf(tbl, fetchDate) == {r \in tbl : r.date_fetched = fetchDate}
\* the rows a save call was asked to write
Asked == {[number |-> e.number, title |-> e.title, decided |-> e.decided,
           category |-> e.category, date_fetched |-> call.fetchDate] :
              e \in {call.arg.list[i] : i \in DOMAIN call.arg.list}}

\* C12: after saving a second extraction result for a fetch date that
\* already has persisted entries, the persisted entries for that date are
\* exactly those of the second result.
C12_SnapshotReplaced ==
    (call.kind = "save" /\ call.contacted /\ call.result.success
        /\ RowsOf(call.before, call.fetchDate) # {})
    => RowsOf(table, call.fetchDate) = Asked

\* C13: when saveFMCSARegisterEntries succeeds, the count it returns is the
\* number of rows written to the store for the fetch date; for an empty or
\* missing list it returns success with count 0 and leaves the store
\* unchanged without contacting it.
C13_CountIsRowsWritten ==
    call.kind = "save" =>
        IF ~call.arg.present \/ call.arg.list = <<>>
        THEN /\ call.result = [success |-> TRUE, count |-> 0]
             /\ ~call.contacted
             /\ table = call.before
        ELSE call.result.success =>
                /\ Asked \subseteq RowsOf(table, call.fetchDate)
                /\ call.result.count = Cardinality(Asked)
                /\ table \ Asked = {r \in call.before :
                                       \A a \in Asked : ConflictKey(r) # ConflictKey(a)}

\* one row written, replacing its older version, for a date that keeps
\* another older row as well
C13_Witness ==
    /\ call.kind = "save" /\ call.contacted /\ call.result.success
    /\ call.result.count = 1
    /\ call.before \ table # {}
    /\ RowsOf(table, call.fetchDate) \ Asked # {}

\* str contains term, letters compared without regard to case
ContainsNoCase(str, term) ==
    \E k \in 1..(Len(str) - Len(term) + 1) :
        \A j \in DOMAIN term : UpperChar(str[k + j - 1].c) = UpperChar(term[j])

\* C17: fetchFMCSARegisterEntries returns only entries that satisfy every
\* supplied filter, ordered by date_fetched descending then number
\* ascending, at most `limit` entries when a limit is supplied and at most
\* 500 otherwise.
C17_QueryContract ==
    call.kind = "query" =>
        LET f == call.filters
            rows == call.result
        IN /\ \A i \in DOMAIN rows :
                 /\ f.category \notin {"", "all"} => rows[i].category = f.category
                 /\ f.dateFrom # NoDate => f.dateFrom <= rows[i].date_fetched
                 /\ f.dateTo # NoDate => rows[i].date_fetched <= f.dateTo
                 /\ f.searchTerm # NoTerm =>
                        \/ ContainsNoCase(rows[i].number, f.searchTerm)
                        \/ ContainsNoCase(rows[i].title, f.searchTerm)
           /\ \A i, j \in DOMAIN rows : i < j => RowBefore(rows[i], rows[j])
           /\ Len(rows) <= (IF f.limit # NoLimit THEN f.limit ELSE 500)

\* ------------------------------------------- the view and the persistence
\* entries.map(e => ({ ...e, date_fetched: fetchDate }))
WithDate(list, fetchDate) ==
    [i \in DOMAIN list |->
        [number |-> list[i].number, title |-> list[i].title,
         decided |-> list[i].decided, category |-> list[i].category,
         date_fetched |-> fetchDate]]
\* data.map(d => ({ number, title, decided, category }))
Columns(rows) ==
    [i \in DOMAIN rows |->
        [number |-> rows[i].number, title |-> rows[i].title,
         decided |-> rows[i].decided, category |-> rows[i].category]]

\* fetchRegisterData from `const data = await response.json()` on, for a
\* 2xx response with the entry list `list`; a non-empty list starts
\* saveToSupabase, which runs up to its await
LiveResponse(list, selectedDate) ==
    /\ ~pending.active
    /\ IF Len(list) > 0
       THEN /\ registerData' = list
            /\ error' = ""
            /\ saveStatus' = "saving"
            /\ pending' = [active |-> TRUE, entries |-> list,
                           fetchDate |-> selectedDate, reloaded |-> FALSE]
       ELSE /\ error' = "No entries found on FMCSA for this date."
            /\ UNCHANGED <<registerData, saveStatus, pending>>
    /\ call' = [kind |-> "live", caller |-> "view", result |-> list]
    /\ UNCHANGED <<handlerVars, table, dateRun, cleaned, jobs, view, pair>>

\* mutant: a failed save empties the list the view holds
AfterSaveDropsEntries(result, held) ==
    IF result.success THEN [saveStatus |-> "saved", registerData |-> held]
    ELSE [saveStatus |-> "error", registerData |-> <<>>]
\* saveToSupabase after its await: the view state it leaves
AfterSave(result, held) ==
    IF result.success THEN [saveStatus |-> "saved", registerData |-> held]
    ELSE [saveStatus |-> "error", registerData |-> held]

\* the awaited saveFMCSARegisterEntries settles
SaveSettles(fault) ==
    /\ pending.active
    /\ \E out \in {saveFMCSARegisterEntries(
                      Given(WithDate(pending.entries, pending.fetchDate)),
                      pending.fetchDate, fault, table)} :
          /\ table' = out.table
          /\ call' = [kind |-> "save", caller |-> "view",
                      live |-> pending.entries, reloaded |-> pending.reloaded,
                      fetchDate |-> pending.fetchDate, fault |-> fault,
                      result |-> out.result, contacted |-> out.contacted]
          /\ saveStatus' = AfterSave(out.result, registerData).saveStatus
          /\ registerData' = AfterSave(out.result, registerData).registerData
    /\ pending' = [active |-> FALSE]
    /\ UNCHANGED <<handlerVars, error, dateRun, cleaned, jobs, view, pair>>

\* setTimeout(() => setSaveStatus('idle'), 3000)
SavedShownOff ==
    /\ saveStatus = "saved"
    /\ ~pending.active
    /\ saveStatus' = "idle"
    /\ UNCHANGED <<handlerVars, error, registerData, table, call, dateRun,
                   cleaned, jobs, pending, view, pair>>

\* loadFromSupabase(dateOverride): on mount without an override, on a change
\* of the date field with the new date
loadFromSupabase(dateToUse, override, fault) ==
    /\ \E rows \in {fetchFMCSARegisterEntries(
                       [category |-> "", dateFrom |-> dateToUse, dateTo |-> dateToUse,
                        searchTerm |-> NoTerm, limit |-> NoLimit], fault, table)} :
          /\ call' = [kind |-> "load", caller |-> "view", fault |-> fault,
                      date |-> dateToUse, result |-> rows]
          /\ IF Len(rows) > 0
             THEN /\ registerData' = Columns(rows)
                  /\ error' = ""
             ELSE /\ registerData' = <<>>
                  /\ error' = IF override
                              THEN "No data found in database for this date. Click \"Fetch Live\" to scrape from FMCSA."
                              ELSE ""
    /\ pending' = IF pending.active THEN [pending EXCEPT !.reloaded = TRUE] ELSE pending
    /\ UNCHANGED <<handlerVars, table, saveStatus, dateRun, cleaned, jobs, view, pair>>

ViewNext ==
    \/ \E list \in EntryLists, selectedDate \in FetchDates : LiveResponse(list, selectedDate)
    \/ \E fault \in StoreFaults : SaveSettles(fault)
    \/ SavedShownOff
    \/ \E dateToUse \in FetchDates, override \in BOOLEAN, fault \in StoreFaults :
          loadFromSupabase(dateToUse, override, fault)

ViewSpec == Init /\ [][ViewNext]_vars

FetchFailed == res.sent /\ method = "POST" /\ res.status = 500

\* C15: when the fetch of the register page fails, the handler makes no
\* further fetch attempt for the request, performs no extraction, and
\* responds exactly once with a failure result that carries the fetch
\* error's own message and an empty entry list.
C15_FetchFailureAnswer ==
    /\ [](FetchFailed =>
            /\ res.body.success = FALSE
            /\ res.body.details \in FetchErrors
            /\ res.body.entries = <<>>
            /\ data = <<>> /\ rawText = <<>> /\ matches = <<>> /\ entries = <<>>
            /\ pc \in {"responded", "shown"})
    /\ [][\A msg \in FetchErrors : FetchReject(msg) => res'.body.details = msg]_vars
    /\ [][res.sent => res' = res]_vars
    /\ [][pc' = "fetching" => pc = "idle"]_vars

\* the 500 answer to a fetch that timed out
C15_Witness ==
    /\ FetchFailed
    /\ pc = "responded"
    /\ res.body.details = "timeout of 60000ms exceeded"
    /\ res.body.entries = <<>>

\* ------------------------------------------------ interleaved extractions
\* the records with a three-character body
JobRecords == {r \in Records : Len(r.body) = 3}
JobPages == {MarkerComment \o Build(rs) :
                rs \in UNION {[1..k -> JobRecords] : k \in 1..MaxJobRecs}}

\* the while loop as a whole: the entries array after the scan of txt from
\* offset `from`, starting with the array acc
RECURSIVE ScanFrom(_, _, _)
ScanFrom(txt, from, acc) ==
    LET match == exec(txt, from)
        title == CleanTitle(match.rawInfo)
    IN IF ~match.found THEN acc
       ELSE ScanFrom(txt, match.last,
                IF TooLong(title) THEN acc
                ELSE Append(acc, [number |-> match.docket, title |-> title,
                                  decided |-> match.decidedDate,
                                  category |-> Categorize(contextText(txt, match.index))]))

\* mutant: one entries array for all requests
NewEntriesShared(left) == left
\* const entries: any[] = []  -- a new array for every request, whatever
\* earlier requests left behind
NewEntries(left) == <<>>

\* a POST arrives and the handler runs up to `await axios.post(...)`
JobRequest(r, page) ==
    /\ jobs.procs[r].stage = "none"
    /\ jobs' = [jobs EXCEPT !.procs[r] = [stage |-> "fetching", page |-> page]]
    /\ UNCHANGED <<handlerVars, error, registerData, table, call, saveStatus,
                   dateRun, cleaned, pending, view, pair>>

\* the fetch of request r resolves; the rest of the handler runs without
\* interruption up to res.json
JobResume(r) ==
    /\ jobs.procs[r].stage = "fetching"
    /\ \E page \in {jobs.procs[r].page} :
          IF InvalidResponse(page)
          THEN jobs' = [jobs EXCEPT !.procs[r] =
                           [stage |-> "done", page |-> page, status |-> 400,
                            entries |-> <<>>]]
          ELSE \E scanned \in {ScanFrom(text(page), 0, NewEntries(jobs.left))} :
                  jobs' = [procs |-> [jobs.procs EXCEPT ![r] =
                                        [stage |-> "done", page |-> page, status |-> 200,
                                         entries |-> uniqueEntries(scanned)]],
                           left |-> scanned]
    /\ UNCHANGED <<handlerVars, error, registerData, table, call, saveStatus,
                   dateRun, cleaned, pending, view, pair>>

\* the response has been delivered; the slot takes the next request
JobDone(r) ==
    /\ jobs.procs[r].stage = "done"
    /\ \A o \in Jobs : jobs.procs[o].stage # "fetching"
    /\ jobs' = [jobs EXCEPT !.procs[r] = [stage |-> "none"]]
    /\ UNCHANGED <<handlerVars, error, registerData, table, call, saveStatus,
                   dateRun, cleaned, pending, view, pair>>

JobsNext ==
    \/ \E r \in Jobs, page \in JobPages : JobRequest(r, page)
    \/ \E r \in Jobs : JobResume(r)
    \/ \E r \in Jobs : JobDone(r)

JobsSpec == Init /\ [][JobsNext]_vars

\* the entry list the handler returns for a page when it runs alone
Alone(page) == uniqueEntries(ScanFrom(text(page), 0, <<>>))

MinutesPerDay == 1440
\* days from 0000-03-01 to 1970-01-01
EpochShift == 719468

Years == {5, 1999, 2000, 2024, 2025}
IsLeap(y) == (y % 4 = 0 /\ y % 100 # 0) \/ y % 400 = 0
DaysIn(y, m) == IF m = 2 THEN (IF IsLeap(y) THEN 29 ELSE 28)
                ELSE IF m \in {4, 6, 9, 11} THEN 30 ELSE 31
\* the valid calendar dates 'YYYY-MM-DD' of the model
DateStrings == {ds \in [y : Years, m : 1..12, d : 1..31] : ds.d <= DaysIn(ds.y, ds.m)}
\* offsets of the local zone from UTC, in minutes
ZoneOffsets == {-720, -300, 0, 840}

\* day number of a calendar date (proleptic Gregorian calendar)
DaysFromCivil(y, m, d) ==
    LET yy == IF m <= 2 THEN y - 1 ELSE y
        era == yy \div 400
        yoe == yy % 400
        doy == (153 * (IF m > 2 THEN m - 3 ELSE m + 9) + 2) \div 5 + d - 1
        doe == yoe * 365 + yoe \div 4 - yoe \div 100 + doy
    IN era * 146097 + doe - EpochShift
\* calendar date of a day number
CivilFromDays(z) ==
    LET zz == z + EpochShift
        era == zz \div 146097
        doe == zz % 146097
        yoe == (doe - doe \div 1460 + doe \div 36524 - doe \div 146096) \div 365
        doy == doe - (365 * yoe + yoe \div 4 - yoe \div 100)
        mp == (5 * doy + 2) \div 153
        m == IF mp < 10 THEN mp + 3 ELSE mp - 9
    IN [y |-> yoe + era * 400 + (IF m <= 2 THEN 1 ELSE 0),
        m |-> m,
        d |-> doy - (153 * mp + 2) \div 5 + 1]

\* new Date(dateStr + 'T00:00:00Z') in an environment of the given zone
NewDate(ds, zone) == [time |-> DaysFromCivil(ds.y, ds.m, ds.d) * MinutesPerDay,
                      zone |-> zone]
\* getUTCDate / getUTCMonth / getUTCFullYear
UTCFields(date) == CivilFromDays(date.time \div MinutesPerDay)
\* getDate / getMonth / getFullYear
LocalFields(date) == CivilFromDays((date.time + date.zone) \div MinutesPerDay)

months == << <<"J", "A", "N">>, <<"F", "E", "B">>, <<"M", "A", "R">>, <<"A", "P", "R">>,
             <<"M", "A", "Y">>, <<"J", "U", "N">>, <<"J", "U", "L">>, <<"A", "U", "G">>,
             <<"S", "E", "P">>, <<"O", "C", "T">>, <<"N", "O", "V">>, <<"D", "E", "C">> >>
DigitChar == <<"0", "1", "2", "3", "4", "5", "6", "7", "8", "9">>
\* String(n) for n >= 0
RECURSIVE String(_)
String(n) == IF n < 10 THEN <<DigitChar[n + 1]>>
             ELSE String(n \div 10) \o <<DigitChar[(n % 10) + 1]>>
\* padStart(2, '0')
padStart2(chars) == IF Len(chars) < 2 THEN <<"0">> \o chars ELSE chars
\* slice(-2)
sliceLast2(chars) == IF Len(chars) <= 2 THEN chars ELSE SubSeq(chars, Len(chars) - 1, Len(chars))

\* `${day}-${month}-${year}`
DayMonthYear(f) ==
    Str(padStart2(String(f.d)) \o <<"-">> \o months[f.m] \o <<"-">> \o sliceLast2(String(f.y)))

\* formatDateForAPI of the view
formatDateForAPI(ds, zone) == DayMonthYear(UTCFields(NewDate(ds, zone)))
\* formatDateForFMCSA of the handlers
formatDateForFMCSA(date) == DayMonthYear(LocalFields(date))

\* fetchRegisterData converts selectedDate, the handler requests the page
\* for the date it is given, and the entries are saved under selectedDate
ConvertDate(selectedDate, zone) ==
    /\ dateRun.kind = "none"
    /\ \E formattedDate \in {formatDateForAPI(selectedDate, zone)} :
          dateRun' = [kind |-> "view", selectedDate |-> selectedDate, zone |-> zone,
                      formattedDate |-> formattedDate,
                      registerDate |-> formattedDate,
                      fetchDate |-> selectedDate]
    /\ UNCHANGED <<handlerVars, error, registerData, table, call, saveStatus,
                   cleaned, jobs, pending, view, pair>>

\* a request without a date: registerDate = formatDateForFMCSA(new Date())
DefaultDate(today, minute, zone) ==
    /\ dateRun.kind = "none"
    /\ dateRun' = [kind |-> "handler", zone |-> zone,
                   now |-> DaysFromCivil(today.y, today.m, today.d) * MinutesPerDay + minute,
                   registerDate |-> formatDateForFMCSA(
                       [time |-> DaysFromCivil(today.y, today.m, today.d) * MinutesPerDay + minute,
                        zone |-> zone])]
    /\ UNCHANGED <<handlerVars, error, registerData, table, call, saveStatus,
                   cleaned, jobs, pending, view, pair>>

DateNext ==
    \/ \E selectedDate \in DateStrings, zone \in ZoneOffsets : ConvertDate(selectedDate, zone)
    \/ \E today \in {ds \in DateStrings : ds.y = 2025 /\ ds.d \in {1, 28}},
          minute \in {0, 1439}, zone \in ZoneOffsets : DefaultDate(today, minute, zone)

DateSpec == Init /\ [][DateNext]_vars

\* DD-MMM-YY of a calendar day: two-digit day, month name, last two digits
\* of the year
DDMMMYY(ds) ==
    Str(<<DigitChar[(ds.d \div 10) + 1], DigitChar[(ds.d % 10) + 1], "-">>
        \o months[ds.m]
        \o <<"-", DigitChar[((ds.y % 100) \div 10) + 1], DigitChar[(ds.y % 10) + 1]>>)

\* C18: for every valid calendar date in YYYY-MM-DD form the conversion
\* yields the DD-MMM-YY string of that same calendar day regardless of the
\* local time zone, so that the date requested from the source and the
\* fetch date of the saved entries denote the same calendar day.
C18_DateConversion ==
    dateRun.kind = "view" =>
        /\ dateRun.formattedDate = DDMMMYY(dateRun.selectedDate)
        /\ dateRun.registerDate = DDMMMYY(dateRun.fetchDate)

\* the same statement for the years that have at least two digits
C18_FromYearTen ==
    (dateRun.kind = "view" /\ dateRun.selectedDate.y >= 10) =>
        /\ dateRun.formattedDate = DDMMMYY(dateRun.selectedDate)
        /\ dateRun.registerDate = DDMMMYY(dateRun.fetchDate)

\* ------------------------------------------------------------ normalisation
\* longest string handed to cleanText
MaxCleanLen == 4
CleanAlphabet == {"a", " ", "\n", "nbsp"}
\* the argument of cleanText: a string, null or undefined
StringValue(chars) == [kind |-> "string", chars |-> chars]
CleanInputs ==
    {[kind |-> "null", chars |-> <<>>], [kind |-> "undefined", chars |-> <<>>]}
    \cup {StringValue(Str(cs)) : cs \in UNION {[1..k -> CleanAlphabet] : k \in 0..MaxCleanLen}}

\* replace(/\u00a0/g, ' ')
replaceNbsp(s) == [i \in DOMAIN s |-> IF s[i].c = "nbsp" THEN [c |-> " ", n |-> 1] ELSE s[i]]

\* mutant: the result is not trimmed
cleanTextUntrimmed(txt) ==
    IF txt.kind # "string" \/ txt.chars = <<>> THEN <<>>
    ELSE replaceSpaces(replaceNbsp(txt.chars))
\* cleanText
cleanText(txt) ==
    IF txt.kind # "string" \/ txt.chars = <<>> THEN <<>>
    ELSE trim(replaceSpaces(replaceNbsp(txt.chars)))

\* cleanText is applied to a value and then to its own result
Clean(txt) ==
    /\ cleaned.kind = "none"
    /\ \E once \in {cleanText(txt)} :
          cleaned' = [kind |-> "clean", input |-> txt, once |-> once,
                      twice |-> cleanText(StringValue(once))]
    /\ UNCHANGED <<handlerVars, error, registerData, table, call, saveStatus,
                   dateRun, jobs, pending, view, pair>>

CleanNext == \E txt \in CleanInputs : Clean(txt)

CleanSpec == Init /\ [][CleanNext]_vars

\* s has no non-breaking space, no two adjacent whitespace characters and
\* no leading or trailing whitespace
Normalized(s) ==
    /\ \A i \in DOMAIN s : s[i].c # "nbsp"
    /\ \A i \in DOMAIN s : s[i].c \in Whitespace => s[i].n = 1
    /\ \A i \in 1..(Len(s) - 1) : ~(s[i].c \in Whitespace /\ s[i + 1].c \in Whitespace)
    /\ s # <<>> => (s[1].c \notin Whitespace /\ s[Len(s)].c \notin Whitespace)

\* C19: the text the extractor scans, for record matching and for the
\* category windows, is the normalized text: no non-breaking space, no run
\* of two or more whitespace characters, no leading or trailing whitespace.
C19_ScannedTextIsNormalized ==
    pc = "scan" => Normalized(rawText)

\* C20: normalization is idempotent: cleanText(cleanText(s)) = cleanText(s)
\* for every string s, null and undefined included, and cleanText(s) has no
\* non-breaking space, no two adjacent whitespace characters and no leading
\* or trailing whitespace.
C20_CleanTextIdempotent ==
    cleaned.kind = "clean" =>
        /\ cleaned.twice = cleaned.once
        /\ Normalized(cleaned.once)
        /\ cleaned.input.kind # "string" => cleaned.once = <<>>

\* a string with a non-breaking space, a whitespace run and whitespace at
\* its end, cleaned to two words
C20_Witness ==
    /\ cleaned.kind = "clean" /\ cleaned.input.kind = "string"
    /\ \E i \in DOMAIN cleaned.input.chars : cleaned.input.chars[i].c = "nbsp"
    /\ ~Normalized(cleaned.input.chars)
    /\ cleaned.input.chars[Len(cleaned.input.chars)].c \in Whitespace
    /\ cleaned.once = Str(<<"a", " ", "a">>)

\* ------------------------------------------- further properties of the scan
\* C21: deduplication is idempotent: applying the dedup filter to a list it
\* has already produced returns the identical list.
C21_DedupIdempotent ==
    Success => uniqueEntries(res.body.entries) = res.body.entries

\* a response from which the filter removed two copies of one entry
C21_Witness ==
    /\ Success
    /\ Len(res.body.entries) >= 1
    /\ Len(entries) >= Len(res.body.entries) + 2
    /\ \E i, j, k \in DOMAIN entries :
          i < j /\ j < k /\ SameKey(entries[i], entries[j]) /\ SameKey(entries[j], entries[k])

\* C22: the source spans of any two matches found by the scan, from the
\* first character of the docket token to the last character of the date
\* token, are disjoint: each match starts at or after the position where
\* the previous match ended.
C22_SpansDisjoint ==
    /\ \A i \in DOMAIN matches : matches[i].index < matches[i].last
    /\ \A i, j \in DOMAIN matches : i < j => matches[i].last <= matches[j].index

\* three matches, the second starting one character after the first ends
C22_Witness ==
    /\ Len(matches) = 3
    /\ matches[2].index = matches[1].last + 1
    /\ pc = "responded"

\* C23: before deduplication the entry list is ordered by strictly
\* ascending start offset of each entry's docket token in the scanned text.
C23_EntriesInTextOrder ==
    /\ \A i, j \in DOMAIN matches : i < j => matches[i].index < matches[j].index
    /\ Len(entries) = Cardinality({i \in DOMAIN matches : matches[i].pushed})
    /\ \A k \in DOMAIN entries :
          /\ entries[k].number = MatchOfEntry(k).docket
          /\ entries[k].decided = MatchOfEntry(k).decidedDate
          /\ entries[k].title = CleanTitle(MatchOfEntry(k).rawInfo)
          /\ OccursAt(rawText, 1 + Cardinality({r \in DOMAIN rawText :
                                                   Off(rawText, r) < MatchOfEntry(k).index}),
                      [r \in DOMAIN entries[k].number |-> entries[k].number[r].c])

\* three entries with different dockets or dates, in the order of the text
C23_Witness ==
    /\ Len(entries) = 3
    /\ entries[1].number # entries[2].number
    /\ entries[2].decided # entries[3].decided
    /\ pc = "responded"

\* a docket token (prefix, hyphen, digit) stands at run i of s
DocketAt(s, i) ==
    \E k \in DOMAIN Prefixes :
        /\ OccursAt(s, i, Prefixes[k])
        /\ i + Len(Prefixes[k]) <= Len(s)
        /\ s[i + Len(Prefixes[k])].c = "-"
        /\ IsDigit(s, i + Len(Prefixes[k]) + 1)

\* C24: the title of an emitted entry never contains the docket token of a
\* subsequent record, and every docket token of the text that is followed
\* by a body and a date yields its own match.
C24_BodyStopsBeforeNextDocket ==
    /\ \A k \in DOMAIN entries :
          \A i \in DOMAIN entries[k].title : ~DocketAt(entries[k].title, i)
    /\ pc \in {"responded", "shown"} /\ method = "POST" /\ Len(rawText) > 0 =>
          \A i \in DOMAIN rawText :
              MatchAt(rawText, i).found =>
                  \E m \in DOMAIN matches : matches[m].index = Off(rawText, i)

\* records put in the place of the text from a match's start on
Tails == {
    Str(<<"M", "C", "-", "1", " ", "A", " ", "a", " ", "0", "1", "/", "0", "1", "/", "2", "0", "2", "0">>),
    Str(<<"M", "X", "-", "7", " ", "T", "r", "a", "n", "s", "f", "e", "r", "s", " ", "0", "2", "/", "0", "2", "/", "2", "0", "2", "0">>),
    Str(<<"F", "F", "-", "2", " ", "R", "E", "V", "O", "C", "A", "T", "I", "O", "N", "S", " ", "x", "\n", "0", "3", "/", "0", "3", "/", "2", "0", "2", "0">>) }

\* the category of the entry emitted for the match that starts at offset P
\* of the text made of the first P characters of rawText followed by tail
CategoryWithTail(P, tail) ==
    LET before == substring(rawText, 0, P)
        other == before \o tail
    IN IF MatchAt(other, Len(before) + 1).found
       THEN Categorize(contextText(other, P))
       ELSE "no match"

\* C25: an entry's category does not depend on the record's own text: for
\* two inputs that are identical up to the start position P of a match and
\* both have a match starting at P, the entries emitted for those matches
\* have the same category, whatever the body and date after P are.
C25_CategoryIgnoresOwnText ==
    \A k \in DOMAIN entries :
        \A tail \in Tails :
            CategoryWithTail(MatchOfEntry(k).index, tail) = entries[k].category

\* an entry whose own body holds the keyword of a category it is not given
C25_Witness ==
    /\ pc = "responded"
    /\ \E k \in DOMAIN entries :
          /\ includes(toUpperCase(entries[k].title), <<"T", "R", "A", "N", "S", "F", "E", "R", "S">>)
          /\ entries[k].category = "MISCELLANEOUS"
          /\ CategoryWithTail(MatchOfEntry(k).index, Str(<<"M", "C", "-", "1", " ", "A", " ", "a", " ", "0", "1", "/", "0", "1", "/", "2", "0", "2", "0">>)) = "MISCELLANEOUS"

\* the loop is synchronous code: once the text is there the engine runs
\* its iterations, and the response after the last one, without yielding
LoopSpec == Spec /\ WF_vars(ScanMatch \/ RespondEntries)

\* C26: the scan position strictly increases with every match and never
\* passes the end of the text, so the extraction loop terminates: a request
\* whose text is being scanned is eventually answered, also when matches
\* are skipped as oversized.
C26_ScanTerminates ==
    /\ [][ScanMatch => lastIndex' > lastIndex]_vars
    /\ [](lastIndex <= Length(rawText))
    /\ (pc = "scan" ~> pc = "responded")

\* a scan that ended after two matches, one of them skipped as oversized
C26_Witness ==
    /\ pc = "responded"
    /\ Len(matches) = 2
    /\ \E i \in DOMAIN matches : ~matches[i].pushed
    /\ \E i \in DOMAIN matches : matches[i].pushed

\* the entries pushed for the first i matches
EntriesUpTo(i) ==
    SubSeq(entries, 1, Cardinality({j \in 1..i : matches[j].pushed}))

\* C29: when a match is skipped because its cleaned title exceeds 500
\* characters, the scan resumes after the end of the skipped match: no
\* match, and so no entry, starts inside the skipped match's span, and what
\* follows the skipped match's date token is matched and emitted as a scan
\* that begins there does it.
C29_SkippedMatchIsPassedOver ==
    \A i \in DOMAIN matches :
        ~matches[i].pushed =>
            /\ Length(CleanTitle(matches[i].rawInfo)) > MaxTitleLen
            /\ EntriesUpTo(i) = EntriesUpTo(i - 1)
            /\ \A j \in DOMAIN matches :
                  ~(matches[i].index < matches[j].index /\ matches[j].index < matches[i].last)
            /\ pc = "scan" => lastIndex >= matches[i].last
            /\ pc = "responded" =>
                  entries = ScanFrom(rawText, matches[i].last, EntriesUpTo(i))

\* a skipped match whose span holds the docket token of a record, followed
\* by a record that is emitted
C29_Witness ==
    /\ pc = "responded"
    /\ Len(matches) = 2
    /\ ~matches[1].pushed
    /\ \E r \in DOMAIN matches[1].rawInfo : DocketAt(matches[1].rawInfo, r)
    /\ matches[2].pushed
    /\ Len(res.body.entries) = 1
    /\ res.body.entries[1].number = matches[2].docket

\* ------------------------------------------------ identity in the store
\* C27: after the save of an extraction result under a fetchDate, with the
\* store working, every entry of that result is among the rows of that date
\* with its own title, decided date and category; in particular two entries
\* that share a number but differ in title are both persisted.
C27_EveryEntryPersisted ==
    (call.kind = "save" /\ call.arg.present /\ call.fault.how = "none")
    => /\ call.result.success
       /\ Asked \subseteq RowsOf(table, call.fetchDate)

\* ------------------------------------------------------ the two handlers
\* what `await axios.post(...)` can do: throw, or resolve with a page
Outcomes ==
    {[kind |-> "rejected", message |-> msg] : msg \in FetchErrors}
    \cup {[kind |-> "resolved", page |-> page] : page \in Served}

\* mutant: the serverless handler sends the entries as the scan left them
AnswerServerlessUnfiltered(h, outcome) ==
    IF outcome.kind = "rejected"
    THEN [status |-> 500,
          body |-> [success |-> FALSE,
                    error |-> "Failed to scrape FMCSA register data",
                    details |-> outcome.message,
                    entries |-> <<>>]]
    ELSE IF InvalidResponse(outcome.page)
    THEN [status |-> 400,
          body |-> [success |-> FALSE, error |-> InvalidMessage(h), entries |-> <<>>]]
    ELSE The({[status |-> 200,
               body |-> [success |-> TRUE, count |-> Len(unique), entries |-> unique]]
              : unique \in {IF h = "express"
                            THEN uniqueEntries(ScanFrom(text(outcome.page), 0, <<>>))
                            ELSE ScanFrom(text(outcome.page), 0, <<>>)}})
\* the answer of handler h to a POST, from the try block on: the catch
\* block, the marker check, or the scan, the deduplication and the 200
Answer(h, outcome) ==
    IF outcome.kind = "rejected"
    THEN [status |-> 500,
          body |-> [success |-> FALSE,
                    error |-> "Failed to scrape FMCSA register data",
                    details |-> outcome.message,
                    entries |-> <<>>]]
    ELSE IF InvalidResponse(outcome.page)
    THEN [status |-> 400,
          body |-> [success |-> FALSE, error |-> InvalidMessage(h), entries |-> <<>>]]
    ELSE The({[status |-> 200,
               body |-> [success |-> TRUE, count |-> Len(unique), entries |-> unique]]
              : unique \in {uniqueEntries(ScanFrom(text(outcome.page), 0, <<>>))}})

\* one POST is sent to each deployment and the register site treats both
\* fetches alike
AnswerBoth(outcome) ==
    /\ pair.kind = "none"
    /\ pair' = [kind |-> "pair", outcome |-> outcome,
                express |-> Answer("express", outcome),
                serverless |-> Answer("serverless", outcome)]
    /\ UNCHANGED <<handlerVars, error, registerData, table, call, saveStatus,
                   dateRun, cleaned, jobs, pending, view>>

PairNext == \E outcome \in Outcomes : AnswerBoth(outcome)

PairSpec == Init /\ [][PairNext]_vars

\* field f of a response body, or that the body has no such field
Field(body, f) == IF f \in DOMAIN body THEN <<body[f]>> ELSE <<>>

MaxInFlight == 2

\* what the register site lists for a date: another entry for each date
SiteEntries(d) ==
    IF d = Min(FetchDates)
    THEN <<CHOOSE e \in StoreEntries : e.category = "REVOCATION">>
    ELSE <<CHOOSE e \in StoreEntries : e.number = Str(<<"F", "F", "-", "2">>)>>

\* a request that awaits its answer, with the values its closure holds
LoadRequest(d, override) ==
    [kind |-> "load", date |-> d, override |-> override, entries |-> <<>>]
LiveRequest(d) ==
    [kind |-> "live", date |-> d, override |-> FALSE, entries |-> <<>>]
SaveRequest(d, list) ==
    [kind |-> "save", date |-> d, override |-> FALSE, entries |-> list]

\* useState(getTodayDate()) and useEffect(() => { loadFromSupabase(); }, [])
Mount(today) ==
    /\ ~view.mounted
    /\ view' = [mounted |-> TRUE, selectedDate |-> today, isLoading |-> TRUE,
                requests |-> {LoadRequest(today, FALSE)}]
    /\ error' = ""
    /\ UNCHANGED <<handlerVars, registerData, table, call, saveStatus, dateRun,
                   cleaned, jobs, pending, pair>>

\* onChange of the date field: setSelectedDate(value); loadFromSupabase(value)
\* up to its await
ChangeDate(d) ==
    /\ view.mounted
    /\ d # view.selectedDate
    /\ Cardinality(view.requests) < MaxInFlight
    /\ view' = [view EXCEPT !.selectedDate = d, !.isLoading = TRUE,
                            !.requests = @ \cup {LoadRequest(d, TRUE)}]
    /\ error' = ""
    /\ UNCHANGED <<handlerVars, registerData, table, call, saveStatus, dateRun,
                   cleaned, jobs, pending, pair>>

\* the fetch button (disabled={isLoading}): fetchRegisterData up to its await
ClickFetch ==
    /\ view.mounted
    /\ ~view.isLoading
    /\ Cardinality(view.requests) < MaxInFlight
    /\ view' = [view EXCEPT !.isLoading = TRUE,
                            !.requests = @ \cup {LiveRequest(view.selectedDate)}]
    /\ error' = ""
    /\ UNCHANGED <<handlerVars, registerData, table, call, saveStatus, dateRun,
                   cleaned, jobs, pending, pair>>

\* loadFromSupabase from the answer of fetchFMCSARegisterEntries on
LoadArrives(req, fault) ==
    /\ view.mounted
    /\ req \in view.requests
    /\ req.kind = "load"
    /\ \E rows \in {fetchFMCSARegisterEntries(
                       [category |-> "", dateFrom |-> req.date, dateTo |-> req.date,
                        searchTerm |-> NoTerm, limit |-> NoLimit], fault, table)} :
          IF Len(rows) > 0
          THEN /\ registerData' = Columns(rows)
               /\ error' = error
          ELSE /\ registerData' = <<>>
               /\ error' = IF req.override
                           THEN "No data found in database for this date. Click \"Fetch Live\" to scrape from FMCSA."
                           ELSE error
    /\ view' = [view EXCEPT !.isLoading = FALSE, !.requests = @ \ {req}]
    /\ UNCHANGED <<handlerVars, table, call, saveStatus, dateRun, cleaned, jobs,
                   pending, pair>>

\* fetchRegisterData from the answer of the handler on: a response that is
\* not ok, or the entries of the date asked for; saveToSupabase(entries,
\* selectedDate) runs up to its await
LiveArrives(req, ok) ==
    /\ view.mounted
    /\ req \in view.requests
    /\ req.kind = "live"
    /\ IF ok
       THEN /\ registerData' = SiteEntries(req.date)
            /\ saveStatus' = "saving"
            /\ view' = [view EXCEPT !.isLoading = FALSE,
                                    !.requests = (@ \ {req}) \cup
                                        {SaveRequest(req.date, SiteEntries(req.date))}]
            /\ error' = error
       ELSE /\ error' = "Server returned 500"
            /\ view' = [view EXCEPT !.isLoading = FALSE, !.requests = @ \ {req}]
            /\ UNCHANGED <<registerData, saveStatus>>
    /\ UNCHANGED <<handlerVars, table, call, dateRun, cleaned, jobs, pending, pair>>

\* saveToSupabase from the answer of saveFMCSARegisterEntries on
SaveArrives(req, fault) ==
    /\ view.mounted
    /\ req \in view.requests
    /\ req.kind = "save"
    /\ \E out \in {saveFMCSARegisterEntries(Given(WithDate(req.entries, req.date)),
                                            req.date, fault, table)} :
          /\ table' = out.table
          /\ saveStatus' = AfterSave(out.result, registerData).saveStatus
    /\ view' = [view EXCEPT !.requests = @ \ {req}]
    /\ UNCHANGED <<handlerVars, error, registerData, call, dateRun, cleaned, jobs,
                   pending, pair>>

RaceNext ==
    \/ \E today \in FetchDates : Mount(today)
    \/ \E d \in FetchDates : ChangeDate(d)
    \/ ClickFetch
    \/ \E d \in FetchDates, override \in BOOLEAN, fault \in StoreFaults :
          LoadArrives(LoadRequest(d, override), fault)
    \/ \E d \in FetchDates, ok \in BOOLEAN : LiveArrives(LiveRequest(d), ok)
    \/ \E d \in FetchDates, fault \in StoreFaults :
          SaveArrives(SaveRequest(d, SiteEntries(d)), fault)

RaceSpec == Init /\ [][RaceNext]_vars

\* the lists the view may show for date d: none, what the site lists for d,
\* or the rows the store holds for d
ListsOf(d) ==
    {<<>>, SiteEntries(d),
     Columns(fetchFMCSARegisterEntries(
                 [category |-> "", dateFrom |-> d, dateTo |-> d,
                  searchTerm |-> NoTerm, limit |-> NoLimit], NoFault, table))}

\* C28: under any interleaving of date changes, database loads and live
\* fetches, once no request is in flight the displayed entries are those of
\* the currently selected date, and entries are always persisted under the
\* date for which they were fetched.
C28_ShownEntriesAreOfSelectedDate ==
    /\ (view.mounted /\ view.requests = {}) => registerData \in ListsOf(view.selectedDate)
    /\ view.mounted => \A r \in table : Columns(<<r>>) = SiteEntries(r.date_fetched)

====
